---- MODULE Spec2Model ----
(***************************************************************************)
(* Aggregation kernels of arrow-arith (src/arrow-arith/src/aggregate.rs):  *)
(* sum, sum_checked, min, max, the boolean and byte-string reducers, the   *)
(* bitwise reducers and the dictionary-aware entry points, as operators    *)
(* over a model of Arrow arrays (a values buffer plus an optional validity *)
(* bitmap with an offset+length window).  The generic native type is       *)
(* instantiated at Int8Type (two's complement, Width bits); floating       *)
(* arrays are integers extended by one NaN value that is unordered and     *)
(* unequal to everything, itself included.                                 *)
(***************************************************************************)
EXTENDS Integers, Sequences, FiniteSets, TLC

VARIABLES array, op, result, visited, access

vars == <<array, op, result, visited, access>>

----------------------------------------------------------------------------
(* Bounds of the model.                                                    *)

\* longest primitive array that is built
MaxLen == 130
\* longest exhaustive core placed between the paddings of a primitive array
MaxCore == 1
\* longest boolean array
MaxBoolLen == 4
\* longest byte-string / string array
MaxBytesLen == 3
\* longest key array of a dictionary array
MaxKeys == 3

----------------------------------------------------------------------------
(* Option / Result values.                                                 *)

None == [some |-> FALSE]

Some(v) == [some |-> TRUE, v |-> v]

Ok(r) == [ok |-> TRUE, r |-> r]

Err == [ok |-> FALSE]

----------------------------------------------------------------------------
(* The native element type: i8, plus NaN for the floating kinds.           *)

Width == 8

Modulus == 2 ^ Width

MinVal == -(2 ^ (Width - 1))

MaxVal == (2 ^ (Width - 1)) - 1

\* the one NaN of the floating kinds: outside the integer range
NaN == MaxVal + 1

default_value == 0

ONE == 1

wrap(x) == ((x - MinVal) % Modulus) + MinVal

add_wrapping(a, b) == wrap(a + b)

neg_wrapping(a) == wrap(0 - a)

add_checked(a, b) ==
    IF a + b < MinVal \/ a + b > MaxVal THEN Err ELSE Ok(a + b)

\* PartialEq / PartialOrd of the native type: every comparison with NaN is false
partial_eq(a, b) == a # NaN /\ b # NaN /\ a = b

partial_lt(a, b) == a # NaN /\ b # NaN /\ a < b

partial_gt(a, b) == a # NaN /\ b # NaN /\ a > b

is_nan(a) == ~ partial_eq(a, a)

----------------------------------------------------------------------------
(* Loops.  Every loop of the source (for, for_each, fold, reduce, try_fold)*)
(* is a left fold over an index range; it is evaluated block by block, and *)
(* each intermediate accumulator is computed before the next step, so that *)
(* the nesting depth of the evaluation stays small on long arrays.         *)

FoldRange(f(_, _), init, lo, hi) ==
    LET RECURSIVE inner(_, _, _)
        inner(acc, i, end) ==
            IF i >= end THEN acc
            ELSE LET nxt == f(acc, i)
                 IN  IF nxt = nxt THEN inner(nxt, i + 1, end) ELSE nxt
        RECURSIVE outer(_, _)
        outer(acc, i) ==
            IF i >= hi THEN acc
            ELSE LET end == IF i + 16 < hi THEN i + 16 ELSE hi
                     nxt == inner(acc, i, end)
                 IN  IF nxt = nxt THEN outer(nxt, i + 16) ELSE nxt
    IN  outer(init, lo)

----------------------------------------------------------------------------
(* Validity bitmap: a bit buffer and the offset+length window over it.     *)

LANES == 16

ChunkSize == 64

WordBits == 0 .. (ChunkSize - 1)

\* bit i (0-based) of the window
is_valid(nb, i) == nb.buffer[nb.offset + i + 1]

NullBuffer(bits, offset, length) ==
    [buffer |-> bits, offset |-> offset, len |-> length,
     null_count |->
        Cardinality({i \in 0 .. (length - 1) : ~ bits[offset + i + 1]})]

\* the full 64-bit words of the window, word k holding bits 64k .. 64k+63
bit_chunks(nb) ==
    [k \in 1 .. (nb.len \div ChunkSize) |->
        [i \in WordBits |-> is_valid(nb, ChunkSize * (k - 1) + i)]]

\* the last partial word: the bits past the window's end are zero
remainder_bits(nb) ==
    LET base == ChunkSize * (nb.len \div ChunkSize)
    IN  [i \in WordBits |-> (base + i < nb.len) /\ is_valid(nb, base + i)]

\* mask & (1 << i) != 0
bit_test(mask, i) == mask[i]

\* mask >> n
shift_right(mask, n) ==
    [i \in WordBits |-> (i + n <= ChunkSize - 1) /\ mask[i + n]]

\* the indices of the set bits of the window, increasing
valid_indices(nb) ==
    FoldRange(LAMBDA s, i : IF is_valid(nb, i) THEN Append(s, i) ELSE s,
              <<>>, 0, nb.len)

----------------------------------------------------------------------------
(* Arrays.                                                                 *)

len(a) == IF a.kind = "dict" THEN Len(a.keys.values) ELSE Len(a.values)

nulls(a) == IF a.kind = "dict" THEN a.keys.nulls ELSE a.nulls

null_count(a) == IF nulls(a) = None THEN 0 ELSE nulls(a).v.null_count

\* slice::chunks_exact(n) and its remainder()
chunks_exact(data, n) ==
    [k \in 1 .. (Len(data) \div n) |-> SubSeq(data, n * (k - 1) + 1, n * k)]

chunks_remainder(data, n) ==
    SubSeq(data, n * (Len(data) \div n) + 1, Len(data))

\* NullBuffer::slice: the same bits, the window moved and shortened
nulls_slice(nb, offset, length) == NullBuffer(nb.buffer, nb.offset + offset, length)

\* Array::slice(offset, length): the values are the window's values, the
\* validity bitmap keeps its buffer and gets the window
slice(a, offset, length) ==
    [kind |-> a.kind,
     values |-> SubSeq(a.values, offset + 1, offset + length),
     nulls |-> IF a.nulls = None THEN None
               ELSE Some(nulls_slice(a.nulls.v, offset, length))]

----------------------------------------------------------------------------
(* sum                                                                     *)

\* mutant: a lane stays at the end of the range instead of wrapping
sum_lanes_non_null_saturating(chunk_acc, chunk) ==
    [i \in 0 .. (LANES - 1) |->
        LET t == chunk_acc[i] + chunk[i + 1]
        IN  IF t > MaxVal THEN MaxVal ELSE IF t < MinVal THEN MinVal ELSE t]

\* for i in 0..LANES { chunk_acc[i] = chunk_acc[i].add_wrapping(chunk[i]) }
sum_lanes_non_null(chunk_acc, chunk) ==
    [i \in 0 .. (LANES - 1) |-> add_wrapping(chunk_acc[i], chunk[i + 1])]

\* mutant: the raw value is added whatever its validity bit
sum_lanes_nullable_unmasked(chunk_acc, chunk, mask) ==
    [i \in 0 .. (LANES - 1) |-> add_wrapping(chunk_acc[i], chunk[i + 1])]

\* the masked lane update of the nullable branch
sum_lanes_nullable(chunk_acc, chunk, mask) ==
    [i \in 0 .. (LANES - 1) |->
        add_wrapping(chunk_acc[i],
                     IF ~ bit_test(mask, i) THEN default_value ELSE chunk[i + 1])]

\* one 64-element chunk, no bitmap
sum_chunk_non_null(chunk_acc, chunk) ==
    LET subs == chunks_exact(chunk, LANES)
    IN  FoldRange(LAMBDA acc, j : sum_lanes_non_null(acc, subs[j + 1]),
                  chunk_acc, 0, Len(subs))

\* mutant: the validity word is not shifted between the sub-chunks
sum_chunk_nullable_unshifted(chunk_acc, chunk, word) ==
    LET subs == chunks_exact(chunk, LANES)
    IN  FoldRange(LAMBDA acc, j : sum_lanes_nullable(acc, subs[j + 1], word),
                  chunk_acc, 0, Len(subs))

\* one 64-element chunk with its validity word; the word is shifted after
\* every LANES-wide sub-chunk
sum_chunk_nullable(chunk_acc, chunk, word) ==
    LET subs == chunks_exact(chunk, LANES)
    IN  FoldRange(LAMBDA s, j :
                      [acc |-> sum_lanes_nullable(s.acc, subs[j + 1], s.mask),
                       mask |-> shift_right(s.mask, LANES % 64)],
                  [acc |-> chunk_acc, mask |-> word], 0, Len(subs)).acc

\* remainder.iter().copied().for_each(|value| rem_acc = rem_acc.add_wrapping(value))
sum_remainder_non_null(remainder) ==
    FoldRange(LAMBDA rem_acc, i : add_wrapping(rem_acc, remainder[i + 1]),
              default_value, 0, Len(remainder))

\* mutant: element i of the remainder is tested against bit i + 1
sum_remainder_nullable_bit_off_by_one(remainder, rbits) ==
    FoldRange(LAMBDA rem_acc, i :
                  IF bit_test(rbits, i + 1)
                  THEN add_wrapping(rem_acc, remainder[i + 1]) ELSE rem_acc,
              default_value, 0, Len(remainder))

\* the remainder with the explicit per-bit test
sum_remainder_nullable(remainder, rbits) ==
    FoldRange(LAMBDA rem_acc, i :
                  IF bit_test(rbits, i)
                  THEN add_wrapping(rem_acc, remainder[i + 1]) ELSE rem_acc,
              default_value, 0, Len(remainder))

\* mutant: the remainder accumulator is dropped from the result
sum_reduce_without_remainder(chunk_acc, rem_acc) ==
    FoldRange(LAMBDA reduced, i : add_wrapping(reduced, chunk_acc[i]),
              default_value, 0, LANES)

\* reduced = fold of the lanes; sum = reduced.add_wrapping(rem_acc)
sum_reduce(chunk_acc, rem_acc) ==
    add_wrapping(FoldRange(LAMBDA reduced, i : add_wrapping(reduced, chunk_acc[i]),
                           default_value, 0, LANES),
                 rem_acc)

\* the number of 64-element chunks walked: all of them, or as many as the zip
\* with the validity words yields
sum_blocks(a) ==
    LET data_chunks == Len(a.values) \div ChunkSize
        words == IF a.nulls = None THEN data_chunks ELSE a.nulls.v.len \div ChunkSize
    IN  IF words < data_chunks THEN words ELSE data_chunks

\* mutant: every element is accumulated in lane 0
sum_chunk_acc_in_one_lane(a, k) ==
    [i \in 0 .. (LANES - 1) |->
        IF i # 0 THEN default_value
        ELSE FoldRange(LAMBDA t, j :
                           IF a.nulls = None \/ is_valid(a.nulls.v, j)
                           THEN add_wrapping(t, a.values[j + 1]) ELSE t,
                       default_value, 0, ChunkSize * k)]

\* chunk_acc after the first k chunks
sum_chunk_acc(a, k) ==
    LET data_chunks == chunks_exact(a.values, ChunkSize)
        init_acc == [i \in 0 .. (LANES - 1) |-> default_value]
    IN  IF a.nulls = None
        THEN FoldRange(LAMBDA acc, c : sum_chunk_non_null(acc, data_chunks[c + 1]),
                       init_acc, 0, k)
        ELSE LET words == bit_chunks(a.nulls.v)
             IN  FoldRange(LAMBDA acc, c :
                               sum_chunk_nullable(acc, data_chunks[c + 1], words[c + 1]),
                           init_acc, 0, k)

\* rem_acc after the remainder loop
sum_rem_acc(a) ==
    LET remainder == chunks_remainder(a.values, ChunkSize)
    IN  IF a.nulls = None THEN sum_remainder_non_null(remainder)
        ELSE sum_remainder_nullable(remainder, remainder_bits(a.nulls.v))

\* mutant: no early return, the accumulators are reduced whatever the nulls
sum_unguarded(a) ==
    Some(sum_reduce(sum_chunk_acc(a, sum_blocks(a)), sum_rem_acc(a)))

sum(a) ==
    IF null_count(a) = len(a) THEN None
    ELSE Some(sum_reduce(sum_chunk_acc(a, sum_blocks(a)), sum_rem_acc(a)))

----------------------------------------------------------------------------
(* sum_checked                                                             *)

\* mutant: the addition wraps instead of failing
sum_checked_step_wrapping(s, idx, value) ==
    [ok |-> TRUE, sum |-> add_wrapping(s.sum, value), visited |-> Append(s.visited, idx)]

\* the closure of try_fold / try_for_each_valid_idx: one checked addition.
\* s.visited lists the indices whose value has been passed to add_checked;
\* after an Err the `?` has returned and nothing further is visited.
sum_checked_step(s, idx, value) ==
    IF ~ s.ok THEN s
    ELSE LET r == add_checked(s.sum, value)
         IN  [ok |-> r.ok,
              sum |-> IF r.ok THEN r.r ELSE s.sum,
              visited |-> Append(s.visited, idx)]

\* the indices the closure is called on: the set bits of the window
\* offset .. offset + length - 1 of the bits, relative to the window, in
\* increasing order (the closure's `?` ends the walk, see sum_checked_step)
try_for_each_valid_idx(length, offset, null_count_, bits) ==
    FoldRange(LAMBDA s, i : IF bits[offset + i + 1] THEN Append(s, i) ELSE s,
              <<>>, 0, length)

\* mutant: the bitmap is walked from the start of its buffer
sum_checked_valid_idx_without_offset(nb) ==
    try_for_each_valid_idx(nb.len, 0, nb.null_count, nb.buffer)

\* try_for_each_valid_idx(nulls.len(), nulls.offset(), nulls.null_count(),
\*                        Some(nulls.validity()), ..)
sum_checked_valid_idx(nb) ==
    try_for_each_valid_idx(nb.len, nb.offset, nb.null_count, nb.buffer)

\* one checked addition into an accumulator that keeps the first failure
checked_add_step(s, value) ==
    IF ~ s.ok THEN s
    ELSE LET r == add_checked(s.sum, value)
         IN  [ok |-> r.ok, sum |-> IF r.ok THEN r.r ELSE s.sum]

\* the traversal of sum with every addition checked: the 64-element blocks
\* into LANES accumulators (a null slot adds zero), the lanes folded into one
\* scalar, the remainder into its accumulator, and the two added
lane_wise_checked(a) ==
    IF null_count(a) = len(a) THEN Ok(None)
    ELSE
      LET data == a.values
          term(j) == IF a.nulls = None \/ is_valid(a.nulls.v, j)
                     THEN data[j + 1] ELSE default_value
          whole == ChunkSize * (Len(data) \div ChunkSize)
          lanes == [i \in 0 .. (LANES - 1) |->
                       FoldRange(LAMBDA t, k : checked_add_step(t, term(LANES * k + i)),
                                 [ok |-> TRUE, sum |-> default_value],
                                 0, whole \div LANES)]
          reduced == FoldRange(LAMBDA t, i : checked_add_step(t, lanes[i].sum),
                               [ok |-> TRUE, sum |-> default_value], 0, LANES)
          rem_acc == FoldRange(LAMBDA t, j : checked_add_step(t, term(j)),
                               [ok |-> TRUE, sum |-> default_value],
                               whole, Len(data))
          total == checked_add_step(reduced, rem_acc.sum)
      IN  IF (\A i \in 0 .. (LANES - 1) : lanes[i].ok) /\ rem_acc.ok /\ total.ok
          THEN Ok(Some(total.sum)) ELSE Err

\* mutant: sum_checked with the lane-wise traversal of sum
sum_checked_run_lane_wise(a) ==
    [result |-> lane_wise_checked(a), visited |-> <<>>]

sum_checked_run(a) ==
    IF null_count(a) = len(a) THEN [result |-> Ok(None), visited |-> <<>>]
    ELSE
      LET data == a.values
          start == [ok |-> TRUE, sum |-> default_value, visited |-> <<>>]
          end == IF a.nulls = None
                 THEN FoldRange(LAMBDA s, i : sum_checked_step(s, i, data[i + 1]),
                                start, 0, Len(data))
                 ELSE LET idxs == sum_checked_valid_idx(a.nulls.v)
                      IN  FoldRange(LAMBDA s, k :
                                        sum_checked_step(s, idxs[k + 1],
                                                         data[idxs[k + 1] + 1]),
                                    start, 0, Len(idxs))
      IN  [result |-> IF end.ok THEN Ok(Some(end.sum)) ELSE Err,
           visited |-> end.visited]

sum_checked(a) == sum_checked_run(a).result

----------------------------------------------------------------------------
(* min / max                                                               *)

\* ArrayAccessor::value_unchecked; a dictionary array resolves its key
value_unchecked(a, i) ==
    IF a.kind = "dict"
    THEN a.values.values[a.keys.values[i + 1] + 1]
    ELSE a.values[i + 1]

is_null(a, i) == nulls(a) # None /\ ~ is_valid(nulls(a).v, i)

\* ArrayIter: Some(value) at a valid slot, None at a null slot
array_iter(a) ==
    [i \in 1 .. len(a) |->
        IF is_null(a, i - 1) THEN None ELSE Some(value_unchecked(a, i - 1))]

\* mutant: the comparison of min is turned around
min_cmp_reversed(a, b) == (is_nan(a) /\ ~ is_nan(b)) \/ partial_lt(a, b)

\* |a, b| (is_nan(*a) & !is_nan(*b)) || a > b
min_cmp(a, b) == (is_nan(a) /\ ~ is_nan(b)) \/ partial_gt(a, b)

\* mutant: max without the NaN test
max_cmp_without_nan(a, b) == partial_lt(a, b)

\* |a, b| (!is_nan(*a) & is_nan(*b)) || a < b
max_cmp(a, b) == (~ is_nan(a) /\ is_nan(b)) \/ partial_lt(a, b)

\* Ord of [u8] and of str: the first differing byte decides, and a proper
\* prefix is less
slice_lt(a, b) ==
    LET n == IF Len(a) < Len(b) THEN Len(a) ELSE Len(b)
        diff == {i \in 1 .. n : a[i] # b[i]}
    IN  IF diff = {} THEN Len(a) < Len(b)
        ELSE LET i == CHOOSE i \in diff : \A j \in diff : i <= j
             IN  a[i] < b[i]

slice_gt(a, b) == slice_lt(b, a)

\* |a, b| *a < *b
max_binary_cmp(a, b) == slice_lt(a, b)

\* |a, b| *a > *b
min_binary_cmp(a, b) == slice_gt(a, b)

\* |a, b| *a < *b
max_string_cmp(a, b) == slice_lt(a, b)

\* mutant: min_string with the comparison of max_string
min_string_cmp_as_max(a, b) == slice_lt(a, b)

\* |a, b| *a > *b
min_string_cmp(a, b) == slice_gt(a, b)

\* cmp: F, the closure named by the function that passes it
cmp_call(cmp, a, b) ==
    CASE cmp = "min" -> min_cmp(a, b)
      [] cmp = "max" -> max_cmp(a, b)
      [] cmp = "min_binary" -> min_binary_cmp(a, b)
      [] cmp = "max_binary" -> max_binary_cmp(a, b)
      [] cmp = "min_string" -> min_string_cmp(a, b)
      [] cmp = "max_string" -> max_string_cmp(a, b)

\* the index whose element reduce takes as the first accumulator: the first
\* item of 0 .. len, or of nulls.valid_indices()
min_max_helper_seed(a) ==
    IF null_count(a) = 0 THEN 0 ELSE valid_indices(nulls(a).v)[1]

\* mutant: the fold starts from the type's default value
min_max_helper_zero_seeded(a, cmp) ==
    IF null_count(a) = len(a) THEN None
    ELSE Some(FoldRange(LAMBDA acc, i :
                            IF nulls(a) = None \/ is_valid(nulls(a).v, i)
                            THEN LET item == value_unchecked(a, i)
                                 IN  IF cmp_call(cmp, acc, item) THEN item ELSE acc
                            ELSE acc,
                        default_value, 0, len(a)))

min_max_helper(a, cmp) ==
    IF null_count(a) = len(a) THEN None
    ELSE IF null_count(a) = 0
    THEN \* (0..len).map(value_unchecked).reduce(..): the first item seeds
         Some(FoldRange(LAMBDA acc, i :
                            LET item == value_unchecked(a, i)
                            IN  IF cmp_call(cmp, acc, item) THEN item ELSE acc,
                        value_unchecked(a, min_max_helper_seed(a)), 1, len(a)))
    ELSE LET idxs == valid_indices(nulls(a).v)
             idx == FoldRange(LAMBDA acc_idx, k :
                                  LET acc == value_unchecked(a, acc_idx)
                                      item == value_unchecked(a, idxs[k + 1])
                                  IN  IF cmp_call(cmp, acc, item) THEN idxs[k + 1] ELSE acc_idx,
                              min_max_helper_seed(a), 1, Len(idxs))
         IN  Some(value_unchecked(a, idx))

min(a) == min_max_helper(a, "min")

max(a) == min_max_helper(a, "max")

----------------------------------------------------------------------------
(* bit_and / bit_or / bit_xor                                              *)

Bits == 0 .. (Width - 1)

\* two's complement bit k of v
bit_of(v, k) == ((v % Modulus) \div (2 ^ k)) % 2 = 1

from_bits(b) ==
    wrap(FoldRange(LAMBDA t, k : IF b[k] THEN t + 2 ^ k ELSE t, 0, 0, Width))

bitand(a, b) == from_bits([k \in Bits |-> bit_of(a, k) /\ bit_of(b, k)])

bitor(a, b) == from_bits([k \in Bits |-> bit_of(a, k) \/ bit_of(b, k)])

bitxor(a, b) == from_bits([k \in Bits |-> bit_of(a, k) # bit_of(b, k)])

\* mutant: every operator is seeded with zero
bit_default_always_zero(DEFAULT) == default_value

\* the seed: $DEFAULT == -1 selects ONE.neg_wrapping(), anything else zero
bit_default(DEFAULT) ==
    IF DEFAULT = -1 THEN neg_wrapping(ONE) ELSE default_value

\* accumulator.$OP(value), $OP being one of bitand, bitor, bitxor
OP_call(OP, a, b) ==
    CASE OP = "bitand" -> bitand(a, b)
      [] OP = "bitor" -> bitor(a, b)
      [] OP = "bitxor" -> bitxor(a, b)

\* mutant: the validity word is not consulted inside a full chunk
index_mask_test_always(mask, index_mask) == TRUE

\* (mask & index_mask) != 0, index_mask being 1 << p and kept as the position
\* p; shifted out of the word it is zero
index_mask_test(mask, index_mask) ==
    index_mask < ChunkSize /\ bit_test(mask, index_mask)

\* one 64-element chunk against its validity word
bit_chunk_nullable(OP, result0, chunk, mask) ==
    FoldRange(LAMBDA s, i :
                  [result |-> IF index_mask_test(mask, s.index_mask)
                              THEN OP_call(OP, s.result, chunk[i + 1]) ELSE s.result,
                   index_mask |-> s.index_mask + 1],
              [result |-> result0, index_mask |-> 0], 0, Len(chunk)).result

bit_remainder_nullable(OP, result0, remainder, rbits) ==
    FoldRange(LAMBDA r, i :
                  IF bit_test(rbits, i) THEN OP_call(OP, r, remainder[i + 1]) ELSE r,
              result0, 0, Len(remainder))

bit_operation(OP, DEFAULT, a) ==
    LET default == bit_default(DEFAULT)
    IN  IF null_count(a) = len(a) THEN None
        ELSE
          LET data == a.values
          IN  IF a.nulls = None
              THEN Some(FoldRange(LAMBDA accumulator, i : OP_call(OP, accumulator, data[i + 1]),
                                  default, 0, Len(data)))
              ELSE LET data_chunks == chunks_exact(data, ChunkSize)
                       remainder == chunks_remainder(data, ChunkSize)
                       words == bit_chunks(a.nulls.v)
                       n == IF Len(words) < Len(data_chunks)
                            THEN Len(words) ELSE Len(data_chunks)
                       chunked ==
                           FoldRange(LAMBDA r, k :
                                         bit_chunk_nullable(OP, r, data_chunks[k + 1],
                                                            words[k + 1]),
                                     default, 0, n)
                   IN  Some(bit_remainder_nullable(OP, chunked, remainder,
                                                   remainder_bits(a.nulls.v)))

bit_and(a) == bit_operation("bitand", -1, a)

bit_or(a) == bit_operation("bitor", 0, a)

bit_xor(a) == bit_operation("bitxor", 0, a)

----------------------------------------------------------------------------
(* Boolean reducers                                                        *)

\* Iterator::find, Option::flatten, Option::or
find(it, wanted) ==
    LET hits == {i \in 1 .. Len(it) : it[i] = wanted}
    IN  IF hits = {} THEN None
        ELSE Some(it[CHOOSE i \in hits : \A j \in hits : i <= j])

flatten(o) == IF o.some THEN o.v ELSE None

or(o, d) == IF o.some THEN o ELSE d

\* mutant: the scan reads the raw values, those under null slots included
min_boolean_over_raw_values(a) ==
    IF null_count(a) = len(a) THEN None
    ELSE Some(\A i \in 1 .. len(a) : a.values[i])

min_boolean(a) ==
    IF null_count(a) = len(a) THEN None
    ELSE or(flatten(find(array_iter(a), Some(FALSE))), Some(TRUE))

max_boolean(a) ==
    IF null_count(a) = len(a) THEN None
    ELSE or(flatten(find(array_iter(a), Some(TRUE))), Some(FALSE))

\* BooleanArray::true_count / false_count: the set / unset values at valid slots
true_count(a) ==
    Cardinality({i \in 0 .. (len(a) - 1) : ~ is_null(a, i) /\ a.values[i + 1]})

false_count(a) == len(a) - null_count(a) - true_count(a)

\* mutant: every slot that is not a valid true counts as false
bool_and_nulls_as_false(a) ==
    IF null_count(a) = len(a) THEN None ELSE Some(len(a) - true_count(a) = 0)

bool_and(a) ==
    IF null_count(a) = len(a) THEN None ELSE Some(false_count(a) = 0)

\* mutant: no early return on an array without a non-null element
bool_or_unguarded(a) == Some(true_count(a) # 0)

bool_or(a) ==
    IF null_count(a) = len(a) THEN None ELSE Some(true_count(a) # 0)

----------------------------------------------------------------------------
(* Byte-string and string reducers                                         *)

max_binary(a) == min_max_helper(a, "max_binary")

min_binary(a) == min_max_helper(a, "min_binary")

max_string(a) == min_max_helper(a, "max_string")

min_string(a) == min_max_helper(a, "min_string")

----------------------------------------------------------------------------
(* Dictionary-aware entry points                                           *)

\* array.data_type() matches DataType::Dictionary(_, _)
is_dictionary(a) == a.kind = "dict"

\* mutant: the keys are summed, not the values they select
sum_array_of_keys(a) == IF is_dictionary(a) THEN sum(a.keys) ELSE sum(a)

sum_array(a) ==
    IF is_dictionary(a)
    THEN IF null_count(a) = len(a) THEN None
         ELSE LET iter == array_iter(a)
              IN  Some(FoldRange(LAMBDA accumulator, i :
                                     IF iter[i + 1].some
                                     THEN add_wrapping(accumulator, iter[i + 1].v)
                                     ELSE accumulator,
                                 default_value, 0, Len(iter)))
    ELSE sum(a)

\* mutant: the addition wraps instead of failing
sum_array_checked_step_wrapping(s, idx, item) ==
    IF item.some
    THEN [ok |-> TRUE, sum |-> add_wrapping(s.sum, item.v),
          visited |-> Append(s.visited, idx)]
    ELSE s

\* the closure of try_fold on the iterator's item at idx; s.visited lists the
\* indices whose key the iterator has resolved (the items that are Some);
\* after an Err the `?` has returned and the iterator is not advanced
sum_array_checked_step(s, idx, item) ==
    IF ~ s.ok THEN s
    ELSE IF item.some
    THEN LET r == add_checked(s.sum, item.v)
         IN  [ok |-> r.ok,
              sum |-> IF r.ok THEN r.r ELSE s.sum,
              visited |-> Append(s.visited, idx)]
    ELSE s

\* mutant: the values are added in a wider accumulator and only the total is
\* tested against the type's range
sum_array_checked_dictionary_total_only(a) ==
    IF null_count(a) = len(a) THEN [result |-> Ok(None), visited |-> <<>>]
    ELSE LET iter == array_iter(a)
             end == FoldRange(LAMBDA s, i :
                                  IF iter[i + 1].some
                                  THEN [sum |-> s.sum + iter[i + 1].v,
                                        visited |-> Append(s.visited, i)]
                                  ELSE s,
                              [sum |-> default_value, visited |-> <<>>],
                              0, Len(iter))
         IN  [result |-> IF end.sum < MinVal \/ end.sum > MaxVal
                         THEN Err ELSE Ok(Some(end.sum)),
              visited |-> end.visited]

\* the DataType::Dictionary arm of sum_array_checked
sum_array_checked_dictionary(a) ==
    IF null_count(a) = len(a) THEN [result |-> Ok(None), visited |-> <<>>]
    ELSE LET iter == array_iter(a)
             end == FoldRange(LAMBDA s, i :
                                  sum_array_checked_step(s, i, iter[i + 1]),
                              [ok |-> TRUE, sum |-> default_value, visited |-> <<>>],
                              0, Len(iter))
         IN  [result |-> IF end.ok THEN Ok(Some(end.sum)) ELSE Err,
              visited |-> end.visited]

\* mutant: a plain array goes to the wrapping sum
sum_array_checked_run_to_sum(a) ==
    IF is_dictionary(a) THEN sum_array_checked_dictionary(a)
    ELSE [result |-> Ok(sum(a)), visited |-> sum_checked_run(a).visited]

sum_array_checked_run(a) ==
    IF is_dictionary(a) THEN sum_array_checked_dictionary(a)
    ELSE sum_checked_run(a)

sum_array_checked(a) == sum_array_checked_run(a).result

\* m: M, the function passed for the plain arrays
m_call(m, a) == IF m = "min" THEN min(a) ELSE max(a)

\* mutant: m is applied to the values array of a dictionary, whatever the keys
min_max_array_helper_over_values(a, cmp, m) ==
    IF is_dictionary(a) THEN m_call(m, a.values) ELSE m_call(m, a)

min_max_array_helper(a, cmp, m) ==
    IF is_dictionary(a) THEN min_max_helper(a, cmp) ELSE m_call(m, a)

min_array(a) == min_max_array_helper(a, "min", "min")

max_array(a) == min_max_array_helper(a, "max", "max")

----------------------------------------------------------------------------
(* The vectorized engine (feature "simd").  A vector is a function from    *)
(* the lane numbers 0 .. lanes - 1, a vector mask a boolean one.           *)

\* T::lanes() of the widest and of the narrowest numeric types
SimdLanes == {8, 64}

\* T::init: the value in every lane
T_init(lanes, v) == [i \in 0 .. (lanes - 1) |-> v]

T_mask_init(lanes, b) == [i \in 0 .. (lanes - 1) |-> b]

\* T::load of a slice of lanes elements
T_load(chunk) == [i \in 0 .. (Len(chunk) - 1) |-> chunk[i + 1]]

\* T::mask_select(mask, a, b): a where the mask is set, b elsewhere
T_mask_select(mask, a, b) == [i \in DOMAIN mask |-> IF mask[i] THEN a[i] ELSE b[i]]

\* lane-wise comparisons, false in a lane that holds NaN
T_eq(a, b) == [i \in DOMAIN a |-> partial_eq(a[i], b[i])]

T_lt(a, b) == [i \in DOMAIN a |-> partial_lt(a[i], b[i])]

T_gt(a, b) == [i \in DOMAIN a |-> partial_gt(a[i], b[i])]

\* a + b of two vectors: lane-wise, wrapping
T_add(a, b) == [i \in DOMAIN a |-> add_wrapping(a[i], b[i])]

\* T::mask_from_u64: lane i is set iff bit i of the word is
T_mask_from_u64(lanes, mask) == [i \in 0 .. (lanes - 1) |-> bit_test(mask, i)]

T_mask_get(mask, i) == mask[i]

\* T::write: the lanes as a slice
T_write(v) == [i \in 1 .. Cardinality(DOMAIN v) |-> v[i - 1]]

mask_not(m) == [i \in DOMAIN m |-> ~ m[i]]

mask_or(m, n) == [i \in DOMAIN m |-> m[i] \/ n[i]]

mask_and(m, n) == [i \in DOMAIN m |-> m[i] /\ n[i]]

\* SumAggregate
Sum_init_accumulator_scalar == default_value

Sum_init_accumulator_chunk(lanes) == T_init(lanes, Sum_init_accumulator_scalar)

Sum_accumulate_chunk_non_null(accumulator, chunk) == T_add(accumulator, chunk)

Sum_accumulate_chunk_nullable(accumulator, chunk, vecmask) ==
    LET zero == [i \in DOMAIN chunk |-> default_value]
        blended == T_mask_select(vecmask, chunk, zero)
    IN  T_add(accumulator, blended)

Sum_accumulate_scalar(accumulator, value) == add_wrapping(accumulator, value)

Sum_reduce(simd_accumulator, scalar_accumulator) ==
    LET written == T_write(simd_accumulator)
        reduced == FoldRange(LAMBDA r, i : Sum_accumulate_scalar(r, written[i + 1]),
                             Sum_init_accumulator_scalar, 0, Len(written))
    IN  Some(Sum_accumulate_scalar(reduced, scalar_accumulator))

\* MinAggregate: an accumulator is <<value, has seen a value>>, lane-wise for
\* the chunk accumulator
Min_init_accumulator_scalar == <<default_value, FALSE>>

Min_init_accumulator_chunk(lanes) ==
    <<T_init(lanes, default_value), T_mask_init(lanes, FALSE)>>

Min_accumulate_chunk_non_null(accumulator, chunk) ==
    LET acc_is_nan == mask_not(T_eq(accumulator[1], accumulator[1]))
        is_lt == mask_or(acc_is_nan, T_lt(chunk, accumulator[1]))
        first_or_lt == mask_or(mask_not(accumulator[2]), is_lt)
    IN  <<T_mask_select(first_or_lt, chunk, accumulator[1]),
          [i \in DOMAIN chunk |-> TRUE]>>

Min_accumulate_chunk_nullable(accumulator, chunk, vecmask) ==
    LET acc_is_nan == mask_not(T_eq(accumulator[1], accumulator[1]))
        is_lt == mask_and(vecmask, mask_or(acc_is_nan, T_lt(chunk, accumulator[1])))
        first_or_lt == mask_or(mask_not(accumulator[2]), is_lt)
    IN  <<T_mask_select(first_or_lt, chunk, accumulator[1]),
          mask_or(accumulator[2], vecmask)>>

Min_accumulate_scalar(accumulator, value) ==
    IF ~ accumulator[2] THEN <<value, TRUE>>
    ELSE LET acc_is_nan == is_nan(accumulator[1])
         IN  IF acc_is_nan \/ partial_lt(value, accumulator[1])
             THEN <<value, TRUE>> ELSE <<accumulator[1], TRUE>>

\* mutant: reduce folds every lane, seen or not
Min_reduce_all_lanes(simd_accumulator, scalar_accumulator) ==
    LET written == T_write(simd_accumulator[1])
        lanes_reduced ==
            FoldRange(LAMBDA r, i : Min_accumulate_scalar(r, written[i + 1]),
                      Min_init_accumulator_scalar, 0, Len(written))
        reduced == IF scalar_accumulator[2]
                   THEN Min_accumulate_scalar(lanes_reduced, scalar_accumulator[1])
                   ELSE lanes_reduced
    IN  IF reduced[2] THEN Some(reduced[1]) ELSE None

Min_reduce(simd_accumulator, scalar_accumulator) ==
    LET written == T_write(simd_accumulator[1])
        lanes_reduced ==
            FoldRange(LAMBDA r, i :
                          IF T_mask_get(simd_accumulator[2], i)
                          THEN Min_accumulate_scalar(r, written[i + 1]) ELSE r,
                      Min_init_accumulator_scalar, 0, Len(written))
        reduced == IF scalar_accumulator[2]
                   THEN Min_accumulate_scalar(lanes_reduced, scalar_accumulator[1])
                   ELSE lanes_reduced
    IN  IF reduced[2] THEN Some(reduced[1]) ELSE None

\* MaxAggregate
Max_init_accumulator_scalar == <<default_value, FALSE>>

Max_init_accumulator_chunk(lanes) ==
    <<T_init(lanes, default_value), T_mask_init(lanes, FALSE)>>

Max_accumulate_chunk_non_null(accumulator, chunk) ==
    LET chunk_is_nan == mask_not(T_eq(chunk, chunk))
        is_gt == mask_or(chunk_is_nan, T_gt(chunk, accumulator[1]))
        first_or_gt == mask_or(mask_not(accumulator[2]), is_gt)
    IN  <<T_mask_select(first_or_gt, chunk, accumulator[1]),
          [i \in DOMAIN chunk |-> TRUE]>>

Max_accumulate_chunk_nullable_unseeded(accumulator, chunk, vecmask) ==
    LET chunk_is_nan == mask_not(T_eq(chunk, chunk))
        is_gt == mask_and(vecmask, mask_or(chunk_is_nan, T_gt(chunk, accumulator[1])))
    IN  <<T_mask_select(is_gt, chunk, accumulator[1]),
          mask_or(accumulator[2], vecmask)>>

Max_accumulate_chunk_nullable(accumulator, chunk, vecmask) ==
    LET chunk_is_nan == mask_not(T_eq(chunk, chunk))
        is_gt == mask_and(vecmask, mask_or(chunk_is_nan, T_gt(chunk, accumulator[1])))
        first_or_gt == mask_or(mask_not(accumulator[2]), is_gt)
    IN  <<T_mask_select(first_or_gt, chunk, accumulator[1]),
          mask_or(accumulator[2], vecmask)>>

Max_accumulate_scalar(accumulator, value) ==
    IF ~ accumulator[2] THEN <<value, TRUE>>
    ELSE LET value_is_nan == is_nan(value)
         IN  IF value_is_nan \/ partial_gt(value, accumulator[1])
             THEN <<value, TRUE>> ELSE <<accumulator[1], TRUE>>

Max_reduce(simd_accumulator, scalar_accumulator) ==
    LET written == T_write(simd_accumulator[1])
        lanes_reduced ==
            FoldRange(LAMBDA r, i :
                          IF T_mask_get(simd_accumulator[2], i)
                          THEN Max_accumulate_scalar(r, written[i + 1]) ELSE r,
                      Max_init_accumulator_scalar, 0, Len(written))
        reduced == IF scalar_accumulator[2]
                   THEN Max_accumulate_scalar(lanes_reduced, scalar_accumulator[1])
                   ELSE lanes_reduced
    IN  IF reduced[2] THEN Some(reduced[1]) ELSE None

\* A: SimdAggregate<T>, by the name of the implementing struct
init_accumulator_scalar(A) ==
    CASE A = "SumAggregate" -> Sum_init_accumulator_scalar
      [] A = "MinAggregate" -> Min_init_accumulator_scalar
      [] A = "MaxAggregate" -> Max_init_accumulator_scalar

init_accumulator_chunk(A, lanes) ==
    CASE A = "SumAggregate" -> Sum_init_accumulator_chunk(lanes)
      [] A = "MinAggregate" -> Min_init_accumulator_chunk(lanes)
      [] A = "MaxAggregate" -> Max_init_accumulator_chunk(lanes)

accumulate_chunk_non_null(A, accumulator, chunk) ==
    CASE A = "SumAggregate" -> Sum_accumulate_chunk_non_null(accumulator, chunk)
      [] A = "MinAggregate" -> Min_accumulate_chunk_non_null(accumulator, chunk)
      [] A = "MaxAggregate" -> Max_accumulate_chunk_non_null(accumulator, chunk)

accumulate_chunk_nullable(A, accumulator, chunk, vecmask) ==
    CASE A = "SumAggregate" -> Sum_accumulate_chunk_nullable(accumulator, chunk, vecmask)
      [] A = "MinAggregate" -> Min_accumulate_chunk_nullable(accumulator, chunk, vecmask)
      [] A = "MaxAggregate" -> Max_accumulate_chunk_nullable(accumulator, chunk, vecmask)

accumulate_scalar(A, accumulator, value) ==
    CASE A = "SumAggregate" -> Sum_accumulate_scalar(accumulator, value)
      [] A = "MinAggregate" -> Min_accumulate_scalar(accumulator, value)
      [] A = "MaxAggregate" -> Max_accumulate_scalar(accumulator, value)

reduce(A, simd_accumulator, scalar_accumulator) ==
    CASE A = "SumAggregate" -> Sum_reduce(simd_accumulator, scalar_accumulator)
      [] A = "MinAggregate" -> Min_reduce(simd_accumulator, scalar_accumulator)
      [] A = "MaxAggregate" -> Max_reduce(simd_accumulator, scalar_accumulator)

\* one 64-element chunk, no bitmap
simd_chunk_non_null(A, lanes, chunk_acc, chunk) ==
    LET subs == chunks_exact(chunk, lanes)
    IN  FoldRange(LAMBDA acc, j : accumulate_chunk_non_null(A, acc, T_load(subs[j + 1])),
                  chunk_acc, 0, Len(subs))

\* one 64-element chunk with its validity word, shifted by lanes % 64 after
\* every sub-chunk
simd_chunk_nullable(A, lanes, chunk_acc, chunk, word) ==
    LET subs == chunks_exact(chunk, lanes)
    IN  FoldRange(LAMBDA s, j :
                      [acc |-> accumulate_chunk_nullable(A, s.acc, T_load(subs[j + 1]),
                                                         T_mask_from_u64(lanes, s.mask)),
                       mask |-> shift_right(s.mask, lanes % 64)],
                  [acc |-> chunk_acc, mask |-> word], 0, Len(subs)).acc

simd_remainder_non_null(A, remainder) ==
    FoldRange(LAMBDA rem_acc, i : accumulate_scalar(A, rem_acc, remainder[i + 1]),
              init_accumulator_scalar(A), 0, Len(remainder))

simd_remainder_nullable(A, remainder, rbits) ==
    FoldRange(LAMBDA rem_acc, i :
                  IF bit_test(rbits, i)
                  THEN accumulate_scalar(A, rem_acc, remainder[i + 1]) ELSE rem_acc,
              init_accumulator_scalar(A), 0, Len(remainder))

\* chunk_acc after the first k chunks
simd_chunk_acc(A, lanes, a, k) ==
    LET data_chunks == chunks_exact(a.values, ChunkSize)
    IN  IF a.nulls = None
        THEN FoldRange(LAMBDA acc, c :
                           simd_chunk_non_null(A, lanes, acc, data_chunks[c + 1]),
                       init_accumulator_chunk(A, lanes), 0, k)
        ELSE LET words == bit_chunks(a.nulls.v)
             IN  FoldRange(LAMBDA acc, c :
                               simd_chunk_nullable(A, lanes, acc, data_chunks[c + 1],
                                                   words[c + 1]),
                           init_accumulator_chunk(A, lanes), 0, k)

\* rem_acc after the remainder loop
simd_rem_acc(A, a) ==
    LET remainder == chunks_remainder(a.values, ChunkSize)
    IN  IF a.nulls = None THEN simd_remainder_non_null(A, remainder)
        ELSE simd_remainder_nullable(A, remainder, remainder_bits(a.nulls.v))

simd_aggregation(A, lanes, a) ==
    IF null_count(a) = len(a) THEN None
    ELSE reduce(A, simd_chunk_acc(A, lanes, a, sum_blocks(a)), simd_rem_acc(A, a))

----------------------------------------------------------------------------
(* The reads of a call: the element indices whose data is read, the bits   *)
(* of the validity window that are consulted (counted from the window's    *)
(* first bit) and the element indices read through value_unchecked.        *)

NoAccess == [data |-> {}, bits |-> {}, unchecked |-> {}]

\* sum, bit_operation! and simd_aggregation: the 64-element chunks zipped
\* with the validity words, bit p of word k being bit 64k + p of the window,
\* then the remainder, element i against bit i of the remainder bits
chunks_access(a) ==
    IF null_count(a) = len(a) THEN NoAccess
    ELSE
      LET data == a.values
          whole == Len(data) \div ChunkSize
          rest == Len(data) % ChunkSize
      IN  IF a.nulls = None
          THEN [data |-> 0 .. (Len(data) - 1), bits |-> {}, unchecked |-> {}]
          ELSE LET words == a.nulls.v.len \div ChunkSize
                   n == IF words < whole THEN words ELSE whole
               IN  [data |-> (0 .. (ChunkSize * n - 1))
                             \cup {ChunkSize * whole + i : i \in 0 .. (rest - 1)},
                    bits |-> (0 .. (ChunkSize * n - 1))
                             \cup {ChunkSize * words + i : i \in 0 .. (rest - 1)},
                    unchecked |-> {}]

\* mutant: the unchecked walk over 0 .. len is taken whenever some slot is
\* valid
min_max_helper_access_unguarded(a) ==
    IF null_count(a) = len(a) THEN NoAccess
    ELSE [data |-> 0 .. (len(a) - 1), bits |-> {},
          unchecked |-> 0 .. (len(a) - 1)]

\* min_max_helper: value_unchecked on 0 .. len after null_count == 0, else on
\* the indices of nulls.valid_indices(), which walks the window
min_max_helper_access(a) ==
    IF null_count(a) = len(a) THEN NoAccess
    ELSE IF null_count(a) = 0
    THEN [data |-> 0 .. (len(a) - 1), bits |-> {},
          unchecked |-> 0 .. (len(a) - 1)]
    ELSE LET walked ==
                 FoldRange(LAMBDA s, k :
                               IF k < Len(s.idxs)
                               THEN [s EXCEPT !.seen = @ \cup {s.idxs[k + 1]}] ELSE s,
                           [idxs |-> valid_indices(nulls(a).v), seen |-> {}],
                           0, len(a)).seen
         IN  [data |-> walked,
              bits |-> 0 .. (nulls(a).v.len - 1),
              unchecked |-> walked]

\* sum_checked: the values in order up to the failing addition; with a
\* bitmap, value_unchecked on the indices of try_for_each_valid_idx
sum_checked_access(a) ==
    LET idxs ==
            FoldRange(LAMBDA s, k :
                          IF k < Len(s.read)
                          THEN [s EXCEPT !.seen = @ \cup {s.read[k + 1]}] ELSE s,
                      [read |-> sum_checked_run(a).visited, seen |-> {}],
                      0, len(a)).seen
    IN  IF null_count(a) = len(a) THEN NoAccess
        ELSE IF a.nulls = None
        THEN [data |-> idxs, bits |-> {}, unchecked |-> {}]
        ELSE [data |-> idxs, bits |-> 0 .. (a.nulls.v.len - 1), unchecked |-> idxs]

\* ArrayIter: is_null(i) for every slot, the value of the valid ones
array_iter_access(a) ==
    IF null_count(a) = len(a) THEN NoAccess
    ELSE [data |-> {i \in 0 .. (len(a) - 1) : ~ is_null(a, i)},
          bits |-> IF nulls(a) = None THEN {} ELSE 0 .. (len(a) - 1),
          unchecked |-> {}]

\* the reads of the operator called by name
Access(name, a) ==
    CASE name \in {"sum", "bit_and", "bit_or", "bit_xor",
                   "simd_sum", "simd_min", "simd_max"} -> chunks_access(a)
      [] name = "sum_checked" -> sum_checked_access(a)
      [] name \in {"min", "max", "min_binary", "max_binary",
                   "min_string", "max_string", "min_array", "max_array"} ->
             min_max_helper_access(a)
      [] name \in {"min_boolean", "max_boolean", "bool_and", "bool_or"} ->
             array_iter_access(a)
      [] name = "sum_array" ->
             IF is_dictionary(a) THEN array_iter_access(a) ELSE chunks_access(a)
      [] name = "sum_array_checked" ->
             IF is_dictionary(a) THEN array_iter_access(a)
             ELSE sum_checked_access(a)

----------------------------------------------------------------------------
(* Input arrays.                                                           *)

Replicate(e, n) == [i \in 1 .. n |-> e]

\* an array built from (raw value, validity) pairs; without a bitmap when
\* attach is false
FromElems(kind, elems, attach) ==
    [kind |-> kind,
     values |-> [i \in 1 .. Len(elems) |-> elems[i].v],
     nulls |-> IF attach
               THEN Some(NullBuffer([i \in 1 .. Len(elems) |-> elems[i].ok], 0, Len(elems)))
               ELSE None]

AllValid(elems) == \A i \in 1 .. Len(elems) : elems[i].ok

SeqsUpTo(S, n) == UNION {[1 .. m -> S] : m \in 0 .. n}

\* <<elements before the core, elements after it>>: the paddings put the core
\* at the start, the end and the middle of a 64-element chunk, across the end
\* of a chunk, in the second 16-element sub-chunk and in the remainder; the
\* lengths 63, 64, 65, 127, 128 and 129 are among those built
IntPads ==
    {<<0, 0>>, <<0, 64>>, <<15, 1>>, <<16, 63>>, <<63, 0>>, <<63, 1>>,
     <<64, 0>>, <<64, 63>>, <<127, 0>>, <<127, 1>>}

FloatPads == {<<0, 0>>, <<15, 1>>, <<63, 1>>, <<64, 63>>}

\* a padding element: a valid 1, or a null slot holding a non-zero raw value
PadElems == {[v |-> 1, ok |-> TRUE], [v |-> 7, ok |-> FALSE]}

IntVals == {MinVal, -1, 2, MaxVal}

IntElems == [v : IntVals, ok : {TRUE}] \cup {[v |-> 5, ok |-> FALSE]}

FloatVals == {NaN, -1, 2}

FloatElems == [v : FloatVals, ok : {TRUE}] \cup {[v |-> NaN, ok |-> FALSE]}

PrimInit(kind, E, Pads) ==
    \E pp \in Pads, pad \in PadElems,
       core \in SeqsUpTo(E, MaxCore), attach \in BOOLEAN :
        LET elems == Replicate(pad, pp[1]) \o core \o Replicate(pad, pp[2])
        IN  /\ Len(elems) <= MaxLen
            /\ attach \/ AllValid(elems)
            /\ array = FromElems(kind, elems, attach)

\* every length 0 .. MaxLen: the values 1, 2, 3, .. (wrapped into the type),
\* all valid and without a bitmap, or valid at every third slot only
RampInit ==
    \E n \in 0 .. MaxLen, third \in BOOLEAN :
        array = FromElems("int",
                          [i \in 1 .. n |-> [v |-> wrap(i), ok |-> ~ third \/ i % 3 = 0]],
                          third)

V(x) == [v |-> x, ok |-> TRUE]

\* a null slot as the array builders leave it: the raw value is the default
N == [v |-> default_value, ok |-> FALSE]

\* a null slot of a boolean array
NB == [v |-> FALSE, ok |-> FALSE]

\* the arrays of the crate's unit tests (i32::MAX as MaxVal)
IntExamples ==
    {<<V(1), V(2), V(3), V(4), V(5)>>,
     <<N, V(2), V(3), N, V(5)>>,
     <<N, V(2), V(3), N, N>>,
     <<N, N, N>>,
     <<V(MaxVal), V(1)>>,
     <<V(MaxVal), V(1), V(-1)>>,
     <<V(MaxVal), V(-1), V(1)>>,
     <<V(5), N, N, V(8), V(9)>>,
     <<N, N, V(5), V(2)>>}

BoolExamples ==
    {<<V(TRUE), V(FALSE), V(TRUE), V(FALSE), V(TRUE)>>,
     <<NB, V(TRUE), V(TRUE), NB, V(TRUE)>>,
     <<NB, V(FALSE), V(FALSE), NB, V(FALSE)>>,
     <<V(TRUE), V(TRUE), NB, V(FALSE), NB>>}

ExampleInit ==
    \/ \E e \in IntExamples : array = FromElems("int", e, ~ AllValid(e))
    \/ \E e \in BoolExamples : array = FromElems("bool", e, ~ AllValid(e))

BoolElems == [v : BOOLEAN, ok : BOOLEAN]

BoolInit ==
    \E elems \in SeqsUpTo(BoolElems, MaxBoolLen), attach \in BOOLEAN :
        /\ attach \/ AllValid(elems)
        /\ array = FromElems("bool", elems, attach)

\* byte strings, among them proper prefixes of one another
BytesVals == {<<>>, <<1>>, <<1, 1>>, <<1, 2>>, <<2>>}

BytesElems == [v : BytesVals, ok : {TRUE}] \cup {[v |-> <<>>, ok |-> FALSE]}

BytesInit ==
    \E kind \in {"binary", "string"}, elems \in SeqsUpTo(BytesElems, MaxBytesLen),
       attach \in BOOLEAN :
        /\ attach \/ AllValid(elems)
        /\ array = FromElems(kind, elems, attach)

\* the values of the dictionaries
IntDictValues == <<MinVal, -1, 2, MaxVal>>

FloatDictValues == <<NaN, -1, 2>>

\* DictionaryArray::new(keys, values), the values without nulls
Dictionary(kind, dict, keys, attach) ==
    [kind |-> "dict",
     keys |-> FromElems("int", keys, attach),
     values |-> FromElems(kind, [i \in 1 .. Len(dict) |-> [v |-> dict[i], ok |-> TRUE]],
                          FALSE)]

\* a valid key selects a value; the key stored under a null slot is 0 or an
\* index past the values
DictInit(kind, dict) ==
    \E keys \in SeqsUpTo([v : 0 .. (Len(dict) - 1), ok : {TRUE}]
                             \cup [v : {0, Len(dict)}, ok : {FALSE}], MaxKeys),
       attach \in BOOLEAN :
        /\ attach \/ AllValid(keys)
        /\ array = Dictionary(kind, dict, keys, attach)

\* the dictionary arrays of test_sum_dyn and test_max_min_dyn
ExampleDictValues == <<10, 11, 12, 13, 14, 15, 16, 17>>

ExampleDictKeys ==
    {<<V(2), V(3), V(4)>>, <<V(2), N, V(4)>>, <<V(2), N, V(7)>>, <<N, N, N>>}

\* test_sum_checked_overflow as a dictionary: MaxVal, a null key holding an
\* index past the values, then 2 and -1
OverflowDictKeys == <<V(3), [v |-> 4, ok |-> FALSE], V(2), V(1)>>

ExampleDictInit ==
    \/ \E keys \in ExampleDictKeys :
           array = Dictionary("int", ExampleDictValues, keys, ~ AllValid(keys))
    \/ array = Dictionary("int", IntDictValues, OverflowDictKeys, TRUE)

\* the windows of the slices: offsets and lengths on a 64-bit word boundary,
\* one off it either way, and inside a word
SliceOffsets == {0, 1, 5, 63, 64, 65}

SliceLens == {0, 1, 5, 63, 64, 65}

\* the validity of slot i (1-based) of a sliced array's base
SlicePatterns == {"third", "not_third", "runs"}

SliceValid(pattern, i) ==
    CASE pattern = "third" -> i % 3 = 0
      [] pattern = "not_third" -> i % 3 # 0
      [] pattern = "runs" -> (i \div LANES) % 2 = 0

\* array.slice(offset, length) of an array of MaxLen elements with a bitmap;
\* the window ends inside the array or at its end
SlicePrimInit(kind, vals) ==
    \E pattern \in SlicePatterns, offset \in SliceOffsets :
      \E length \in SliceLens \cup {MaxLen - offset} :
        /\ offset + length <= MaxLen
        /\ array = slice(FromElems(kind,
                                   [i \in 1 .. MaxLen |->
                                       [v |-> vals[(i % Len(vals)) + 1],
                                        ok |-> SliceValid(pattern, i)]],
                                   TRUE),
                         offset, length)

\* slices of the boolean and byte-string arrays of full length: the first
\* element is outside the window, and the last one may be
SliceSmallInit(kinds, E, n) ==
    \E kind \in kinds, elems \in [1 .. n -> E], cut \in {0, 1} :
        /\ 1 + cut <= n
        /\ array = slice(FromElems(kind, elems, TRUE), 1, n - 1 - cut)

SliceInit ==
    \/ SlicePrimInit("int", <<3, MinVal, -1, 2, MaxVal, 1, 6>>)
    \/ SlicePrimInit("float", <<2, NaN, -1, 5, -3>>)
    \/ SliceSmallInit({"bool"}, BoolElems, MaxBoolLen)
    \/ SliceSmallInit({"binary", "string"}, BytesElems, MaxBytesLen)

\* MaxVal and 1 at the head of one full block, MinVal one lane stride after
\* MaxVal, zero elsewhere
LaneOrderElems ==
    [j \in 1 .. ChunkSize |->
        V(CASE j = 1 -> MaxVal
            [] j = 2 -> 1
            [] j = LANES + 1 -> MinVal
            [] OTHER -> default_value)]

\* 64 valid values that add up in index order without leaving the range
\* (MaxVal, MinVal, .., 1) while lane 0 adds MaxVal and 1
LaneWrapElems ==
    [j \in 1 .. ChunkSize |->
        V(CASE j = 1 -> MaxVal
            [] j = 2 -> MinVal
            [] j = LANES + 1 -> 1
            [] OTHER -> default_value)]

LaneOrderInit ==
    \E attach \in BOOLEAN, elems \in {LaneOrderElems, LaneWrapElems} :
        array = FromElems("int", elems, attach)

\* arrays with exactly one non-null value, for every value of the native
\* type: alone without a bitmap, and between two null slots
SingleValueInit ==
    \E v \in MinVal .. MaxVal :
        \/ array = FromElems("int", <<V(v)>>, FALSE)
        \/ array = FromElems("int", <<[v |-> 7, ok |-> FALSE], V(v),
                                      [v |-> 7, ok |-> FALSE]>>, TRUE)

Init ==
    /\ \/ PrimInit("int", IntElems, IntPads)
       \/ PrimInit("float", FloatElems, FloatPads)
       \/ RampInit
       \/ ExampleInit
       \/ BoolInit
       \/ BytesInit
       \/ DictInit("int", IntDictValues)
       \/ DictInit("float", FloatDictValues)
       \/ ExampleDictInit
       \/ SliceInit
       \/ LaneOrderInit
       \/ SingleValueInit
    /\ op = "none"
    /\ result = None
    /\ visited = <<>>
    /\ access = NoAccess

----------------------------------------------------------------------------
(* Calls.                                                                  *)

Call(name, r) ==
    /\ op = "none"
    /\ op' = name
    /\ result' = r
    /\ visited' = <<>>
    /\ access' = Access(name, array)
    /\ UNCHANGED array

Sum == array.kind = "int" /\ Call("sum", sum(array))

SumChecked ==
    /\ array.kind = "int"
    /\ op = "none"
    /\ op' = "sum_checked"
    /\ result' = sum_checked_run(array).result
    /\ visited' = sum_checked_run(array).visited
    /\ access' = Access("sum_checked", array)
    /\ UNCHANGED array

Min == array.kind \in {"int", "float"} /\ Call("min", min(array))

Max == array.kind \in {"int", "float"} /\ Call("max", max(array))

BitAnd == array.kind = "int" /\ Call("bit_and", bit_and(array))

BitOr == array.kind = "int" /\ Call("bit_or", bit_or(array))

BitXor == array.kind = "int" /\ Call("bit_xor", bit_xor(array))

MinBoolean == array.kind = "bool" /\ Call("min_boolean", min_boolean(array))

MaxBoolean == array.kind = "bool" /\ Call("max_boolean", max_boolean(array))

BoolAnd == array.kind = "bool" /\ Call("bool_and", bool_and(array))

BoolOr == array.kind = "bool" /\ Call("bool_or", bool_or(array))

MinBinary == array.kind = "binary" /\ Call("min_binary", min_binary(array))

MaxBinary == array.kind = "binary" /\ Call("max_binary", max_binary(array))

MinString == array.kind = "string" /\ Call("min_string", min_string(array))

MaxString == array.kind = "string" /\ Call("max_string", max_string(array))

\* the element type of a primitive array, or of the values of a dictionary
value_kind(a) == IF a.kind = "dict" THEN a.values.kind ELSE a.kind

SumArray == value_kind(array) = "int" /\ Call("sum_array", sum_array(array))

SumArrayChecked ==
    /\ value_kind(array) = "int"
    /\ op = "none"
    /\ op' = "sum_array_checked"
    /\ result' = sum_array_checked_run(array).result
    /\ visited' = sum_array_checked_run(array).visited
    /\ access' = Access("sum_array_checked", array)
    /\ UNCHANGED array

MinArray ==
    value_kind(array) \in {"int", "float"} /\ Call("min_array", min_array(array))

MaxArray ==
    value_kind(array) \in {"int", "float"} /\ Call("max_array", max_array(array))

\* sum, min and max of the build with the feature "simd", at the lane count
\* of some numeric type
SimdSum ==
    /\ array.kind = "int"
    /\ \E lanes \in SimdLanes :
           Call("simd_sum", simd_aggregation("SumAggregate", lanes, array))

SimdMin ==
    /\ array.kind \in {"int", "float"}
    /\ \E lanes \in SimdLanes :
           Call("simd_min", simd_aggregation("MinAggregate", lanes, array))

SimdMax ==
    /\ array.kind \in {"int", "float"}
    /\ \E lanes \in SimdLanes :
           Call("simd_max", simd_aggregation("MaxAggregate", lanes, array))

Return ==
    /\ op # "none"
    /\ op' = "none"
    /\ result' = None
    /\ visited' = <<>>
    /\ access' = NoAccess
    /\ UNCHANGED array

Next ==
    \/ Sum
    \/ SumChecked
    \/ Min
    \/ Max
    \/ BitAnd
    \/ BitOr
    \/ BitXor
    \/ MinBoolean
    \/ MaxBoolean
    \/ BoolAnd
    \/ BoolOr
    \/ MinBinary
    \/ MaxBinary
    \/ MinString
    \/ MaxString
    \/ SumArray
    \/ SumArrayChecked
    \/ MinArray
    \/ MaxArray
    \/ SimdSum
    \/ SimdMin
    \/ SimdMax
    \/ Return

Spec == Init /\ [][Next]_vars

----------------------------------------------------------------------------
(* Reference definitions used by the properties.                           *)

Range(s) == {s[i] : i \in 1 .. Len(s)}

\* the logical array: the element at index i (0-based), given that it is valid
Value(a, i) ==
    IF a.kind = "dict" THEN a.values.values[a.keys.values[i + 1] + 1]
    ELSE a.values[i + 1]

\* whether the element at index i is non-null, by the window's bits
ValidAt(a, i) ==
    nulls(a) = None \/ nulls(a).v.buffer[nulls(a).v.offset + i + 1]

ValidIdx(a) == {i \in 0 .. (len(a) - 1) : ValidAt(a, i)}

AllNull(a) == \A i \in 0 .. (len(a) - 1) : ~ ValidAt(a, i)

\* the non-null values, in index order
NonNull(a) ==
    FoldRange(LAMBDA s, i : IF ValidAt(a, i) THEN Append(s, Value(a, i)) ELSE s,
              <<>>, 0, len(a))

ExactSum(s) == FoldRange(LAMBDA t, i : t + s[i + 1], 0, 0, Len(s))

\* ExactSum of every prefix: PrefixSums(s)[k] = s[1] + .. + s[k]
PrefixSums(s) ==
    FoldRange(LAMBDA p, i : Append(p, (IF i = 0 THEN 0 ELSE p[i]) + s[i + 1]),
              <<>>, 0, Len(s))

InRange(x) == MinVal <= x /\ x <= MaxVal

\* the representative of x modulo 2^Width in the type's range
Mod2w(x) ==
    LET r == x % Modulus IN IF r > MaxVal THEN r - Modulus ELSE r

IntArray(e) == FromElems("int", e, ~ AllValid(e))

CheckedOps == {"sum_checked", "sum_array_checked"}

\* the operator named by op, applied to a
Apply(name, a) ==
    CASE name = "sum" -> sum(a)
      [] name = "sum_checked" -> sum_checked(a)
      [] name = "min" -> min(a)
      [] name = "max" -> max(a)
      [] name = "bit_and" -> bit_and(a)
      [] name = "bit_or" -> bit_or(a)
      [] name = "bit_xor" -> bit_xor(a)
      [] name = "min_boolean" -> min_boolean(a)
      [] name = "max_boolean" -> max_boolean(a)
      [] name = "bool_and" -> bool_and(a)
      [] name = "bool_or" -> bool_or(a)
      [] name = "min_binary" -> min_binary(a)
      [] name = "max_binary" -> max_binary(a)
      [] name = "min_string" -> min_string(a)
      [] name = "max_string" -> max_string(a)
      [] name = "sum_array" -> sum_array(a)
      [] name = "sum_array_checked" -> sum_array_checked(a)
      [] name = "min_array" -> min_array(a)
      [] name = "max_array" -> max_array(a)

\* sum, min and max of the build with the feature "simd"
SimdApply(name, lanes, a) ==
    CASE name = "simd_sum" -> simd_aggregation("SumAggregate", lanes, a)
      [] name = "simd_min" -> simd_aggregation("MinAggregate", lanes, a)
      [] name = "simd_max" -> simd_aggregation("MaxAggregate", lanes, a)

\* the call in progress returns on a what it has returned on the array
SameResultOn(a) ==
    IF op \in {"simd_sum", "simd_min", "simd_max"}
    THEN \A lanes \in SimdLanes : result = SimdApply(op, lanes, a)
    ELSE result = Apply(op, a)

\* what an array builder stores under a null slot
DefaultOf(kind) ==
    CASE kind \in {"int", "float"} -> default_value
      [] kind = "bool" -> FALSE
      [] kind \in {"binary", "string"} -> <<>>

\* the logical elements of a plain array: the value and the validity of every
\* slot of the window, a null slot holding the builder's default
Logical(a) ==
    [i \in 1 .. len(a) |->
        IF ValidAt(a, i - 1) THEN [v |-> a.values[i], ok |-> TRUE]
        ELSE [v |-> DefaultOf(a.kind), ok |-> FALSE]]

\* an independently built array holding the logical elements of a: its bitmap
\* starts at offset 0, has no bit outside the window, and is absent when no
\* element is null
Rebuilt(a) == FromElems(a.kind, Logical(a), ~ AllValid(Logical(a)))

\* the expanded logical sequence of a dictionary array: values[k] for a valid
\* key k, null for a null key
Expanded(a) ==
    LET elems == [i \in 1 .. len(a) |->
                     IF ValidAt(a, i - 1)
                     THEN [v |-> a.values.values[a.keys.values[i] + 1], ok |-> TRUE]
                     ELSE [v |-> default_value, ok |-> FALSE]]
    IN  FromElems(a.values.kind, elems, ~ AllValid(elems))

\* the validity of a as a bitmap, all bits set when a carries none
nulls_or_all(a) ==
    IF nulls(a) = None THEN NullBuffer([i \in 1 .. len(a) |-> TRUE], 0, len(a))
    ELSE nulls(a).v

\* the indices into the values that some valid key of a holds
Referenced(a) == {a.keys.values[i + 1] : i \in ValidIdx(a)}

\* a with x in place of every value that no valid key references
WithUnreferenced(a, x) ==
    [a EXCEPT !.values.values =
        [k \in 1 .. Len(a.values.values) |->
            IF (k - 1) \in Referenced(a) THEN a.values.values[k] ELSE x]]

ExampleDict(keys) == Dictionary("int", ExampleDictValues, keys, ~ AllValid(keys))

\* a is a window into a longer validity bitmap
IsSlice(a) ==
    /\ a.kind # "dict"
    /\ a.nulls # None
    /\ \/ a.nulls.v.offset > 0
       \/ Len(a.nulls.v.buffer) > a.nulls.v.offset + a.nulls.v.len

----------------------------------------------------------------------------
(* Properties.                                                             *)

\* C1: every operator returns its absent result (None, Ok(None) for the
\* checked sums) exactly when the array has no non-null element, length 0
\* included; otherwise it returns a value or, for the checked sums, an
\* overflow error
C1_AbsentIffAllNull ==
    op # "none" =>
        IF op \in CheckedOps
        THEN /\ (result = Ok(None)) <=> AllNull(array)
             /\ ~ AllNull(array) => (result = Err \/ (result.ok /\ result.r.some))
        ELSE /\ (result = None) <=> AllNull(array)
             /\ ~ AllNull(array) => result.some

C1_Witness ==
    /\ op = "sum_checked"
    /\ len(array) > ChunkSize
    /\ AllNull(array)
    /\ result = Ok(None)

\* C2: sum, and sum_array on a plain array, applied to an integer array with a
\* non-null element return the exact sum of the non-null values reduced
\* modulo 2^Width into the type's range; sum([MaxVal, 1]) = MinVal
C2_SumWraps ==
    (op \in {"sum", "sum_array"} /\ array.kind = "int" /\ ~ AllNull(array)) =>
        /\ result = Some(Mod2w(ExactSum(NonNull(array))))
        /\ array = IntArray(<<V(MaxVal), V(1)>>) => result = Some(MinVal)

C2_Witness ==
    /\ op = "sum"
    /\ array = IntArray(<<V(MaxVal), V(1)>>)
    /\ result = Some(MinVal)

\* C3: sum_checked fails on the first addition of the running sum and the next
\* non-null value that leaves the type's range, visits no element after it and
\* returns no partial sum; without such an addition it returns the exact sum
C3_SumCheckedFirstOverflow ==
    (op = "sum_checked" /\ ~ AllNull(array)) =>
        LET vals == NonNull(array)
            sums == PrefixSums(vals)
            valid == ValidIdx(array)
            bad == {k \in 1 .. Len(vals) : ~ InRange(sums[k])}
        IN  /\ IF bad = {}
               THEN /\ result = Ok(Some(ExactSum(vals)))
                    /\ Len(visited) = Len(vals)
               ELSE /\ result = Err
                    /\ Len(visited) = CHOOSE k \in bad : \A j \in bad : k <= j
            \* the visited indices are the first valid ones, in increasing order
            /\ \A k \in 1 .. Len(visited) :
                   /\ visited[k] \in valid
                   /\ Cardinality({i \in valid : i < visited[k]}) = k - 1
            /\ array = IntArray(<<V(MaxVal), V(1)>>) => result = Err

C3_Witness ==
    /\ op = "sum_checked"
    /\ result = Err
    /\ nulls(array) # None
    /\ Len(visited) < Cardinality(ValidIdx(array))

\* C4: at every length 0 .. MaxLen and every validity pattern built, the
\* chunked 16-lane sum equals the naive left-to-right wrapping sum of the
\* non-null values
NaiveSum(a) ==
    IF AllNull(a) THEN None
    ELSE Some(FoldRange(LAMBDA t, i :
                            IF ValidAt(a, i) THEN Mod2w(t + Value(a, i)) ELSE t,
                        0, 0, len(a)))

C4_SumEqualsNaive == (op = "sum") => result = NaiveSum(array)

C4_Witness ==
    /\ op = "sum"
    /\ len(array) = 2 * ChunkSize + 1
    /\ nulls(array) # None
    /\ ~ AllNull(array)
    /\ null_count(array) > 0
    /\ result.some

\* C5: on an integer array with a non-null element, min returns the least and
\* max the greatest of the non-null values; a null slot is never a candidate
C5_MinMaxExtreme ==
    (op \in {"min", "max"} /\ array.kind = "int" /\ ~ AllNull(array)) =>
        LET valid == ValidIdx(array)
        IN  /\ result.some
            /\ \E i \in valid : Value(array, i) = result.v
            /\ op = "min" => \A i \in valid : result.v <= Value(array, i)
            /\ op = "max" => \A i \in valid : result.v >= Value(array, i)

\* a null slot holds a raw value above every non-null value
C5_Witness ==
    /\ op = "max"
    /\ array.kind = "int"
    /\ len(array) > ChunkSize
    /\ ~ AllNull(array)
    /\ \E i \in 0 .. (len(array) - 1) : ~ ValidAt(array, i) /\ array.values[i + 1] > result.v

\* C6: with NaN comparing false against everything: max returns NaN whenever a
\* non-null value is NaN; min returns the least non-NaN non-null value, and NaN
\* only when every non-null value is NaN
C6_NaNAware ==
    (op \in {"min", "max"} /\ array.kind \in {"int", "float"} /\ ~ AllNull(array)) =>
        LET vals == {Value(array, i) : i \in ValidIdx(array)}
            nums == vals \ {NaN}
        IN  /\ result.some
            /\ (op = "max" /\ NaN \in vals) => result.v = NaN
            /\ (op = "max" /\ NaN \notin vals) =>
                   (result.v \in nums /\ \A v \in nums : v <= result.v)
            /\ (op = "min" /\ nums # {}) =>
                   (result.v \in nums /\ \A v \in nums : result.v <= v)
            /\ (op = "min" /\ nums = {}) => result.v = NaN

\* a NaN after a number, with nulls interleaved
C6_Witness ==
    /\ op = "max"
    /\ array.kind = "float"
    /\ result = Some(NaN)
    /\ null_count(array) > 0
    /\ \E i, j \in ValidIdx(array) :
           i < j /\ Value(array, i) # NaN /\ Value(array, j) = NaN

\* bit k of v in two's complement
RefBit(v, k) == (((v + Modulus) \div (2 ^ k)) % 2) = 1

\* C7: on an integer array with a non-null element, bit_and / bit_or / bit_xor
\* return the bitwise AND / OR / XOR of exactly the non-null values; over
\* [1,2,3,4,5] they return 0, 7 and 1, over [null,2,3,null,5] bit_or = 7 and
\* bit_xor = 4
C7_BitwiseOfNonNull ==
    (op \in {"bit_and", "bit_or", "bit_xor"} /\ ~ AllNull(array)) =>
        LET valid == ValidIdx(array)
            ones(k) == {i \in valid : RefBit(Value(array, i), k)}
        IN  /\ result.some
            /\ InRange(result.v)
            /\ \A k \in 0 .. (Width - 1) :
                   RefBit(result.v, k) <=>
                       CASE op = "bit_and" -> ones(k) = valid
                         [] op = "bit_or" -> ones(k) # {}
                         [] op = "bit_xor" -> Cardinality(ones(k)) % 2 = 1
            /\ array = IntArray(<<V(1), V(2), V(3), V(4), V(5)>>) =>
                   result.v = (CASE op = "bit_and" -> 0
                                 [] op = "bit_or" -> 7
                                 [] op = "bit_xor" -> 1)
            /\ (array = IntArray(<<N, V(2), V(3), N, V(5)>>) /\ op = "bit_or") =>
                   result.v = 7
            /\ (array = IntArray(<<N, V(2), V(3), N, V(5)>>) /\ op = "bit_xor") =>
                   result.v = 4

\* null slots with non-zero raw values inside a full 64-element block
C7_Witness ==
    /\ op = "bit_xor"
    /\ len(array) >= ChunkSize
    /\ ~ AllNull(array)
    /\ \E i \in 0 .. (ChunkSize - 1) : ~ ValidAt(array, i) /\ array.values[i + 1] # 0
    /\ result.some

\* C8: on a boolean array with a non-null element, bool_and is true exactly
\* when no non-null element is false and bool_or exactly when some non-null
\* element is true, whatever bits lie under the null slots; both are None on
\* all-null input
C8_BoolAndOr ==
    (op \in {"bool_and", "bool_or"}) =>
        LET valid == ValidIdx(array)
        IN  IF valid = {} THEN result = None
            ELSE /\ op = "bool_and" => result = Some(\A i \in valid : Value(array, i))
                 /\ op = "bool_or" => result = Some(\E i \in valid : Value(array, i))

\* a false bit under a null slot, and bool_and true
C8_Witness ==
    /\ op = "bool_and"
    /\ result = Some(TRUE)
    /\ \E i \in 0 .. (len(array) - 1) : ~ ValidAt(array, i) /\ ~ array.values[i + 1]

\* C9: on a boolean array with a non-null element, min_boolean is Some(false)
\* if a non-null element is false and Some(true) otherwise, max_boolean is
\* Some(true) if a non-null element is true and Some(false) otherwise; over
\* [Some(true), None, Some(false)] they yield Some(false) and Some(true)
C9_MinMaxBoolean ==
    (op \in {"min_boolean", "max_boolean"} /\ ~ AllNull(array)) =>
        LET vals == {Value(array, i) : i \in ValidIdx(array)}
        IN  /\ op = "min_boolean" => result = Some(FALSE \notin vals)
            /\ op = "max_boolean" => result = Some(TRUE \in vals)
            /\ array = FromElems("bool", <<V(TRUE), NB, V(FALSE)>>, TRUE) =>
                   result = Some(op = "max_boolean")

\* a false bit under a null slot, and min_boolean true
C9_Witness ==
    /\ op = "min_boolean"
    /\ result = Some(TRUE)
    /\ \E i \in 0 .. (len(array) - 1) : ~ ValidAt(array, i) /\ ~ array.values[i + 1]

\* lexicographic order, by the first elements and the rests
RECURSIVE LexLeq(_, _)
LexLeq(a, b) ==
    IF a = <<>> THEN TRUE
    ELSE IF b = <<>> THEN FALSE
    ELSE IF Head(a) = Head(b) THEN LexLeq(Tail(a), Tail(b))
    ELSE Head(a) < Head(b)

\* C10: on a byte-string or string array with a non-null element, min_binary /
\* min_string return the lexicographically least and max_binary / max_string
\* the lexicographically greatest of the non-null values, a proper prefix
\* sorting below its extension
C10_LexMinMax ==
    (op \in {"min_binary", "min_string", "max_binary", "max_string"}
        /\ ~ AllNull(array)) =>
        LET vals == {Value(array, i) : i \in ValidIdx(array)}
        IN  /\ result.some
            /\ result.v \in vals
            /\ op \in {"min_binary", "min_string"} => \A v \in vals : LexLeq(result.v, v)
            /\ op \in {"max_binary", "max_string"} => \A v \in vals : LexLeq(v, result.v)

\* a proper prefix and its extension, with a null between
C10_Witness ==
    /\ op = "min_string"
    /\ null_count(array) > 0
    /\ result = Some(<<1>>)
    /\ \E i \in ValidIdx(array) : Value(array, i) = <<1, 1>>

\* C11: on a slice of an array, at any of the offsets and lengths built
\* (on, before and after the 64-bit word boundaries), every operator returns
\* what it returns on an independently built array holding the slice's
\* logical elements; the bits outside the window do not show in the result
C11_SliceLikeRebuilt ==
    (op # "none" /\ IsSlice(array)) => SameResultOn(Rebuilt(array))

\* a slice that starts one bit before a word boundary and ends past the next
\* one, with valid bits before and after the window
C11_Witness ==
    /\ op = "sum"
    /\ IsSlice(array)
    /\ array.nulls.v.offset = ChunkSize - 1
    /\ len(array) = ChunkSize + 1
    /\ array.nulls.v.buffer[1]
    /\ array.nulls.v.buffer[Len(array.nulls.v.buffer)]
    /\ null_count(array) > 0
    /\ result.some

\* C12: on a dictionary array sum_array returns the wrapping sum of the
\* expanded logical sequence (values[k] for a valid key k, null for a null
\* key), which is what sum returns on the expanded array; keys [2,null,4] over
\* the values 10 .. 17 give 26, keys [2,3,4] give 39, all-null keys give None
C12_DictSumLikeExpanded ==
    (op = "sum_array" /\ is_dictionary(array)) =>
        /\ result = sum(Expanded(array))
        /\ result = IF AllNull(array) THEN None
                    ELSE Some(Mod2w(ExactSum(NonNull(array))))
        /\ array = ExampleDict(<<V(2), N, V(4)>>) => result = Some(26)
        /\ array = ExampleDict(<<V(2), V(3), V(4)>>) => result = Some(39)
        /\ array = ExampleDict(<<N, N, N>>) => result = None

\* a wrapping sum over a repeated key, with a null key between
C12_Witness ==
    /\ op = "sum_array"
    /\ is_dictionary(array)
    /\ len(array) = 3
    /\ ValidAt(array, 0) /\ ~ ValidAt(array, 1) /\ ValidAt(array, 2)
    /\ Value(array, 0) = MaxVal /\ Value(array, 2) = MaxVal
    /\ result = Some(-2)

\* C13: on a dictionary array min_array / max_array return what min / max
\* return on the expanded array: max_array is NaN when a referenced value is
\* NaN and the greatest referenced value otherwise, min_array is the least
\* referenced non-NaN value (NaN when all are NaN); the values that no valid
\* key references can be replaced without changing the result
C13_DictMinMaxLikeExpanded ==
    (op \in {"min_array", "max_array"} /\ is_dictionary(array)) =>
        LET vals == {Value(array, i) : i \in ValidIdx(array)}
            nums == vals \ {NaN}
            typed == IF op = "min_array" THEN "min" ELSE "max"
        IN  /\ result = Apply(typed, Expanded(array))
            /\ vals = {} => result = None
            /\ vals # {} => result.some /\ result.v \in vals
            /\ (vals # {} /\ op = "max_array") =>
                   IF NaN \in vals THEN result.v = NaN
                   ELSE \A v \in vals : v <= result.v
            /\ (vals # {} /\ op = "min_array") =>
                   IF nums = {} THEN result.v = NaN
                   ELSE result.v \in nums /\ \A v \in nums : result.v <= v
            /\ \A x \in {MinVal, MaxVal, NaN} :
                   (x = NaN => array.values.kind = "float") =>
                       result = Apply(op, WithUnreferenced(array, x))
            /\ array = ExampleDict(<<V(2), V(3), V(4)>>) =>
                   result = IF op = "min_array" THEN Some(12) ELSE Some(14)
            /\ array = ExampleDict(<<V(2), N, V(7)>>) =>
                   result = IF op = "min_array" THEN Some(12) ELSE Some(17)

\* the least value of the dictionary is referenced by no valid key, NaN is,
\* and a key is null
C13_Witness ==
    /\ op = "min_array"
    /\ is_dictionary(array)
    /\ array.values.kind = "float"
    /\ null_count(array) > 0
    /\ \E i \in ValidIdx(array) : Value(array, i) = NaN
    /\ \E k \in 1 .. Len(array.values.values) :
           (k - 1) \notin Referenced(array) /\ array.values.values[k] = -1
    /\ result = Some(2)

\* C14: on a dictionary array sum_array_checked gives the outcome of sum_checked
\* on the expanded array: Err exactly when a prefix sum of the resolved
\* non-null values leaves the type's range, else Ok(Some(exact sum)), and
\* Ok(None) when every key is null; only valid keys are resolved, those up to
\* the failing addition
C14_DictSumCheckedLikeExpanded ==
    (op = "sum_array_checked" /\ is_dictionary(array)) =>
        LET vals == NonNull(array)
            sums == PrefixSums(vals)
            bad == {k \in 1 .. Len(vals) : ~ InRange(sums[k])}
            read == IF bad = {} THEN Len(vals)
                    ELSE CHOOSE k \in bad : \A j \in bad : k <= j
        IN  /\ result = sum_checked(Expanded(array))
            /\ AllNull(array) => result = Ok(None)
            /\ (~ AllNull(array) /\ bad = {}) => result = Ok(Some(ExactSum(vals)))
            /\ (~ AllNull(array) /\ bad # {}) => result = Err
            /\ \A k \in 1 .. Len(visited) : ValidAt(array, visited[k])
            /\ ~ AllNull(array) =>
                   visited = SubSeq(valid_indices(nulls_or_all(array)), 1, read)

\* an overflow after a null key whose stored key is past the values, with a
\* valid key left unread
C14_Witness ==
    /\ op = "sum_array_checked"
    /\ is_dictionary(array)
    /\ result = Err
    /\ \E i \in 0 .. (len(array) - 1) :
           /\ ~ ValidAt(array, i)
           /\ array.keys.values[i + 1] >= Len(array.values.values)
           /\ visited # <<>> /\ i < visited[Len(visited)]
    /\ Len(visited) < Cardinality(ValidIdx(array))

\* C15: on an array that is not a dictionary array, sum_array,
\* sum_array_checked, min_array and max_array return what sum, sum_checked,
\* min and max return on it: the same value, the same None, the same overflow
\* error after the same reads
C15_PlainLikeTyped ==
    (op \in {"sum_array", "sum_array_checked", "min_array", "max_array"}
        /\ ~ is_dictionary(array)) =>
        /\ op = "sum_array" => result = sum(array)
        /\ op = "sum_array_checked" =>
               /\ result = sum_checked(array)
               /\ visited = sum_checked_run(array).visited
        /\ op = "min_array" => result = min(array)
        /\ op = "max_array" => result = max(array)

\* the overflow error of sum_checked through sum_array_checked, on a plain
\* array with a bitmap
C15_Witness ==
    /\ op = "sum_array_checked"
    /\ ~ is_dictionary(array)
    /\ nulls(array) # None
    /\ null_count(array) > 0
    /\ result = Err
    /\ sum_checked(array) = Err

\* C16: on every integer array, and every float array for min and max, the
\* vectorized engine returns what the scalar sum / min / max return, at each
\* lane count; among the arrays are those with a single valid element next to
\* a chunk boundary, all-NaN data and nulls across the chunk boundaries
C16_SimdLikeScalar ==
    /\ op = "simd_sum" => result = sum(array)
    /\ op = "simd_min" => result = min(array)
    /\ op = "simd_max" => result = max(array)

\* a single valid element, negative, in the last lane of the first chunk
C16_Witness ==
    /\ op = "simd_max"
    /\ len(array) > ChunkSize
    /\ ValidIdx(array) = {ChunkSize - 1}
    /\ array.values[1] > array.values[ChunkSize]
    /\ result = Some(-1)

\* C17: in every call, each element index that is read lies in 0 .. len - 1,
\* each validity bit that is consulted lies inside the bitmap's window, and
\* value_unchecked is only used on an index inside the array, and either
\* after null_count == 0 or on a valid index
C17_ReadsInBounds ==
    op # "none" =>
        /\ access.data \subseteq 0 .. (len(array) - 1)
        /\ access.bits # {} => nulls(array) # None
        /\ nulls(array) # None =>
               access.bits \subseteq 0 .. (nulls(array).v.len - 1)
        /\ access.unchecked \subseteq 0 .. (len(array) - 1)
        /\ null_count(array) = 0 \/ access.unchecked \subseteq ValidIdx(array)

\* min on a slice whose window starts inside the buffer, with null slots
\* whose bit one window-width earlier is set: value_unchecked has read valid
\* slots only
C17_Witness ==
    /\ op = "min"
    /\ IsSlice(array)
    /\ array.nulls.v.offset > 0
    /\ access.unchecked # {}
    /\ access.unchecked = ValidIdx(array)
    /\ \E i \in 0 .. (len(array) - 1) :
           i \notin access.unchecked /\ array.nulls.v.buffer[i + 1]

\* raw values to store under the null slots of a: for a dictionary array,
\* raw keys
RawValues(a) ==
    CASE a.kind = "int" -> {MinVal, MaxVal}
      [] a.kind = "float" -> {-1, NaN}
      [] a.kind = "bool" -> BOOLEAN
      [] a.kind \in {"binary", "string"} -> {<<>>, <<2, 2>>}
      [] a.kind = "dict" -> {0, Len(a.values.values) - 1}

\* a with the raw value x under every null slot: the same length, the same
\* bitmap, the same values at the valid slots
WithNullSlots(a, x) ==
    IF a.kind = "dict"
    THEN [a EXCEPT !.keys.values =
             [i \in 1 .. len(a) |->
                 IF ValidAt(a, i - 1) THEN a.keys.values[i] ELSE x]]
    ELSE [a EXCEPT !.values =
             [i \in 1 .. len(a) |->
                 IF ValidAt(a, i - 1) THEN a.values[i] ELSE x]]

\* some null slot of a holds the raw value x
HasRawUnderNull(a, x) ==
    \E i \in 0 .. (len(a) - 1) : ~ ValidAt(a, i) /\ a.values[i + 1] = x

\* C18: the result of every operator, the Ok / Err of the checked sums
\* included, is the one it returns on the array with the same length, bitmap
\* and valid values and any other raw value under the null slots
C18_NullSlotsNeverRead ==
    op # "none" =>
        \A x \in RawValues(array) : SameResultOn(WithNullSlots(array, x))

\* sum_checked returned Ok on an array that holds MaxVal at a valid slot and a
\* positive raw value under a null slot, and fails on no raw value there
C18_Witness ==
    /\ op = "sum_checked"
    /\ HasRawUnderNull(array, 7)
    /\ \E i \in ValidIdx(array) : array.values[i + 1] = MaxVal
    /\ result = Ok(Some(MaxVal))
    /\ sum_checked(WithNullSlots(array, MaxVal)) = result

\* C19 as stated: sum_checked signals overflow exactly when an addition of
\* the lane-wise traversal of sum overflows
C19_SumCheckedLaneWise ==
    op = "sum_checked" => ((result = Err) <=> (lane_wise_checked(array) = Err))

\* C19, amended: sum_checked does not walk the array as sum does; it adds
\* the non-null values one at a time, in increasing index order, into a single
\* accumulator, so it signals overflow exactly when an addition of that
\* sequential traversal overflows, and otherwise returns what sum returns
C19_SumCheckedSequential ==
    op = "sum_checked" =>
        LET sums == PrefixSums(NonNull(array))
        IN  /\ (result = Err) <=> (\E k \in 1 .. Len(sums) : ~ InRange(sums[k]))
            /\ result # Err => result = Ok(sum(array))
            /\ \A k \in 1 .. (Len(visited) - 1) : visited[k] < visited[k + 1]

\* sum_checked failed on an array on which no addition of the lane-wise
\* traversal overflows
C19_Witness ==
    /\ op = "sum_checked"
    /\ result = Err
    /\ len(array) >= ChunkSize
    /\ lane_wise_checked(array) = Ok(sum(array))

\* the exact sum of the valid elements of a at the indices of J
ValidSum(a, J) ==
    FoldRange(LAMBDA t, j : IF j \in J /\ ValidAt(a, j) THEN t + a.values[j + 1] ELSE t,
              0, 0, len(a))

\* C20: in sum, after k full 64-element blocks lane i holds the wrapping sum
\* of the valid elements at the indices j < 64k with j mod 16 = i, validity
\* being bit j of the window; the remainder accumulator holds the wrapping sum
\* of the valid elements past the last full block; the result is the wrapping
\* fold of the 16 lanes followed by the remainder accumulator
C20_SumLoopInvariant ==
    (op = "sum" /\ ~ AllNull(array)) =>
        LET blocks == len(array) \div ChunkSize
            whole == 0 .. (ChunkSize * blocks - 1)
            rest == (ChunkSize * blocks) .. (len(array) - 1)
            lanes == sum_chunk_acc(array, blocks)
        IN  /\ sum_blocks(array) = blocks
            /\ \A k \in 0 .. blocks :
                   LET chunk_acc == sum_chunk_acc(array, k)
                   IN  \A i \in 0 .. (LANES - 1) :
                           chunk_acc[i] =
                               Mod2w(ValidSum(array, {j \in 0 .. (ChunkSize * k - 1) :
                                                        j % LANES = i}))
            /\ sum_rem_acc(array) = Mod2w(ValidSum(array, rest))
            /\ result = Some(Mod2w(Mod2w(ExactSum([i \in 1 .. LANES |-> lanes[i - 1]]))
                                   + sum_rem_acc(array)))

\* sum over two full blocks and a remainder of an array with a bitmap: the
\* second block changes the lanes, the lanes differ from one another, and the
\* remainder holds a valid and a null element
C20_Witness ==
    /\ op = "sum"
    /\ nulls(array) # None
    /\ len(array) > 2 * ChunkSize
    /\ sum_chunk_acc(array, 1) # sum_chunk_acc(array, 2)
    /\ \E i \in 1 .. (LANES - 1) :
           sum_chunk_acc(array, 2)[i] # sum_chunk_acc(array, 2)[0]
    /\ \E j, n \in (2 * ChunkSize) .. (len(array) - 1) :
           ValidAt(array, j) /\ ~ ValidAt(array, n)
    /\ result.some

MinOps == {"min", "min_array", "simd_min"}

MaxOps == {"max", "max_array", "simd_max"}

\* C21: min and max are seeded by the first non-null element, never by the
\* type's default: when every non-null value is negative max returns the
\* largest of them, when every one is positive min returns the smallest of
\* them, through min_max_helper and through the vectorized lanes alike
C21_SeededByFirstNonNull ==
    (op \in MinOps \cup MaxOps /\ ~ AllNull(array)) =>
        LET valid == ValidIdx(array)
            vals == {Value(array, i) : i \in valid}
            seed == min_max_helper_seed(array)
        IN  /\ seed \in valid
            /\ \A i \in valid : seed <= i
            /\ (op \in MaxOps /\ \A v \in vals : v < default_value) =>
                   /\ result.some /\ result.v \in vals
                   /\ \A v \in vals : v <= result.v
            /\ (op \in MinOps /\ \A v \in vals : v # NaN /\ v > default_value) =>
                   /\ result.some /\ result.v \in vals
                   /\ \A v \in vals : result.v <= v

\* max of an array whose first slot is null and whose non-null values are all
\* negative
C21_Witness ==
    /\ op = "max"
    /\ ~ AllNull(array)
    /\ ~ ValidAt(array, 0)
    /\ min_max_helper_seed(array) > 0
    /\ \A i \in ValidIdx(array) : Value(array, i) < default_value
    /\ result.some
    /\ result.v < default_value

\* the best of the values S under the NaN-aware rule: for min the least
\* number, NaN when there is none; for max NaN when present, else the greatest
Best(A, S) ==
    LET nums == S \ {NaN}
    IN  IF A = "MinAggregate"
        THEN IF nums = {} THEN NaN
             ELSE CHOOSE v \in nums : \A w \in nums : v <= w
        ELSE IF NaN \in S THEN NaN
             ELSE CHOOSE v \in nums : \A w \in nums : w <= v

\* the valid elements of a loaded at lane i in the first k chunks
LoadedAt(a, lanes, k, i) ==
    {a.values[j + 1] :
        j \in {j \in {i + lanes * t : t \in 0 .. ((ChunkSize * k) \div lanes - 1)} :
                   ValidAt(a, j)}}

\* C22: in the vectorized min / max, after k chunks a lane's has-seen flag is
\* set iff a valid element has been loaded at that lane, and then the lane
\* holds the best of those elements under the NaN-aware rule; the remainder
\* accumulator likewise; reduce takes the best of the flagged lanes and of the
\* remainder accumulator if flagged, and None only when no flag is set
C22_SimdSeenFlags ==
    op \in {"simd_min", "simd_max"} =>
        LET A == IF op = "simd_min" THEN "MinAggregate" ELSE "MaxAggregate"
            blocks == len(array) \div ChunkSize
            rest == {array.values[j + 1] :
                        j \in {j \in (ChunkSize * blocks) .. (len(array) - 1) :
                                   ValidAt(array, j)}}
            rem_acc == simd_rem_acc(A, array)
        IN  /\ rem_acc[2] <=> rest # {}
            /\ rem_acc[2] => rem_acc[1] = Best(A, rest)
            /\ \A lanes \in SimdLanes :
                   /\ \A k \in 0 .. blocks :
                          LET chunk_acc == simd_chunk_acc(A, lanes, array, k)
                          IN  \A i \in 0 .. (lanes - 1) :
                                  LET loaded == LoadedAt(array, lanes, k, i)
                                  IN  /\ chunk_acc[2][i] <=> loaded # {}
                                      /\ chunk_acc[2][i] =>
                                             chunk_acc[1][i] = Best(A, loaded)
                   /\ LET chunk_acc == simd_chunk_acc(A, lanes, array, blocks)
                          flagged == {chunk_acc[1][i] :
                                         i \in {i \in 0 .. (lanes - 1) : chunk_acc[2][i]}}
                                     \cup (IF rem_acc[2] THEN {rem_acc[1]} ELSE {})
                      IN  /\ result = None => flagged = {}
                          /\ result # None => result = Some(Best(A, flagged))

\* the vectorized min returned a value while a lane that has seen no valid
\* element holds the raw value of a null slot
C22_Witness ==
    /\ op = "simd_min"
    /\ result.some
    /\ len(array) >= ChunkSize
    /\ LET chunk_acc == simd_chunk_acc("MinAggregate", 8, array, 1)
       IN  /\ \E i \in 0 .. 7 : chunk_acc[2][i]
           /\ \E i \in 0 .. 7 :
                  ~ chunk_acc[2][i] /\ chunk_acc[1][i] # default_value

\* C23: the seed of bit_and has every bit set (it is -1) and the seed of
\* bit_or and bit_xor is zero, so on an array with exactly one non-null
\* value v each of the three returns v
C23_BitwiseSeedIsIdentity ==
    op \in {"bit_and", "bit_or", "bit_xor"} =>
        /\ bit_default(-1) = -1
        /\ \A k \in 0 .. (Width - 1) : RefBit(bit_default(-1), k)
        /\ bit_default(0) = 0
        /\ Cardinality(ValidIdx(array)) = 1 =>
               \A i \in ValidIdx(array) : result = Some(array.values[i + 1])

\* bit_and over one non-null value with mixed bits, between null slots whose
\* raw values are not zero
C23_Witness ==
    /\ op = "bit_and"
    /\ array.kind = "int"
    /\ len(array) = 3
    /\ ValidIdx(array) = {1}
    /\ array.values = <<7, 85, 7>>
    /\ result = Some(85)

ReversedPlain(a) ==
    FromElems(a.kind,
              [i \in 1 .. len(a) |->
                  [v |-> a.values[len(a) + 1 - i], ok |-> ValidAt(a, len(a) - i)]],
              a.nulls # None)

Reversed(a) ==
    IF a.kind = "dict" THEN [a EXCEPT !.keys = ReversedPlain(a.keys)]
    ELSE ReversedPlain(a)

\* C25: sum_checked and sum_array_checked add the non-null values one at a
\* time, in increasing index order, into one accumulator that starts at zero:
\* they fail exactly when the exact sum of some prefix of the non-null values
\* is outside the type's range. They fail on [MaxVal, 1, -1], whose total is
\* representable, and succeed on [MaxVal, -1, 1]: the outcome depends on the
\* order of the elements
C25_CheckedSumPrefixOrder ==
    op \in CheckedOps =>
        LET vals == NonNull(array)
            sums == PrefixSums(vals)
            back == PrefixSums(NonNull(Reversed(array)))
            valid == ValidIdx(array)
        IN  /\ (result = Err) <=> (\E k \in 1 .. Len(sums) : ~ InRange(sums[k]))
            /\ (result # Err /\ valid # {}) => result = Ok(Some(ExactSum(vals)))
            /\ \A k \in 1 .. Len(visited) :
                   /\ visited[k] \in valid
                   /\ Cardinality({i \in valid : i < visited[k]}) = k - 1
                   /\ k > 1 => InRange(sums[k - 1])
            /\ (Apply(op, Reversed(array)) = Err)
                   <=> (\E k \in 1 .. Len(back) : ~ InRange(back[k]))
            /\ array = IntArray(<<V(MaxVal), V(1), V(-1)>>) =>
                   result = Err /\ InRange(ExactSum(vals))
            /\ array = IntArray(<<V(MaxVal), V(-1), V(1)>>) =>
                   result = Ok(Some(MaxVal))

\* the dictionary branch fails on values whose total is representable, and
\* succeeds on the same values in the opposite order
C25_Witness ==
    /\ op = "sum_array_checked"
    /\ is_dictionary(array)
    /\ result = Err
    /\ InRange(ExactSum(NonNull(array)))
    /\ sum_array_checked(Reversed(array)) = Ok(Some(ExactSum(NonNull(array))))

\* C26: whenever sum_checked returns Ok(r), sum returns exactly r on the same
\* array (and sum_array against sum_array_checked); where the checked sum
\* fails, the unchecked one returns the total reduced modulo 2^Width
C26_CheckedOkIsSum ==
    op \in CheckedOps =>
        LET plain == IF op = "sum_checked" THEN sum(array) ELSE sum_array(array)
        IN  /\ result # Err => result = Ok(plain)
            /\ result = Err => plain = Some(Mod2w(ExactSum(NonNull(array))))

\* sum_checked succeeds on an array without a bitmap on which a lane of sum
\* wraps around
C26_Witness ==
    /\ op = "sum_checked"
    /\ array.nulls = None
    /\ len(array) >= ChunkSize
    /\ result = Ok(sum(array))
    /\ result.r.some
    /\ lane_wise_checked(array) = Err

\* the primitive array a with a bitmap of set bits attached, or with none
WithBitmap(a, attach) ==
    [a EXCEPT !.nulls = IF attach
                        THEN Some(NullBuffer([i \in 1 .. Len(a.values) |-> TRUE],
                                             0, Len(a.values)))
                        ELSE None]

\* C27: on an array without a null element, sum, sum_checked, min, max,
\* bit_and, bit_or and bit_xor (and the vectorized sum, min and max) return
\* the same result whether a validity bitmap with every bit set is attached
\* or no bitmap at all: the result on an array with a bitmap is that on the
\* array stripped of it, the result on an array without one is that on the
\* array with an all-set bitmap attached
C27_AllValidBitmapIrrelevant ==
    (op \in {"sum", "sum_checked", "min", "max", "bit_and", "bit_or", "bit_xor",
             "simd_sum", "simd_min", "simd_max"}
        /\ null_count(array) = 0) =>
        SameResultOn(WithBitmap(array, array.nulls = None))

\* sum over a chunk and a remainder of valid elements under an attached
\* bitmap
C27_Witness ==
    /\ op = "sum"
    /\ array.nulls # None
    /\ null_count(array) = 0
    /\ len(array) > ChunkSize
    /\ len(array) % ChunkSize # 0
    /\ result.some
    /\ result.v # 0
    /\ sum(WithBitmap(array, FALSE)) = result

====
